---- MODULE Spec2Model ----
(***************************************************************************)
(* A model of the `parts` GUID Partition Table library: the in-memory      *)
(* table Gpt<N> (src/src/gpt.rs), its add/remove operations, and the       *)
(* table write and read over an offset-addressed device.                   *)
(*                                                                         *)
(* The device is a map from byte offset to the chunk stored there (an MBR  *)
(* block, a header, a partition entry); every chunk the write emits and    *)
(* the read requests is addressed by the byte offset the code computes.    *)
(***************************************************************************)
EXTENDS Integers, Sequences, FiniteSets, TLC

VARIABLES
    block_size,   \* BlockSize handed to every read and write
    disk_size,    \* Size of the device in bytes
    N,            \* the capacity type parameter of Gpt<N>
    gpt,          \* the in-memory table: uuid, partitions, partitions_len
    disk,         \* the device: byte offset -> chunk
    op,           \* the operation that ran last
    result,       \* its outcome: "Ok", an error kind, or "panic"
    arg,          \* its argument (partition, index, uuid, failing call)
    wlog,         \* the write callback's calls during the last table write
    rlog,         \* the read callback's calls during the last table read
    faults,       \* device faults injected so far (callback errors, tampering)
    codec         \* the block codecs' operands: MBR block, header value, output

vars == <<block_size, disk_size, N, gpt, disk, op, result, arg, wlog, rlog, faults, codec>>

geometry == <<block_size, disk_size, N>>

-----------------------------------------------------------------------------
(* Bounds of the model *)

\* Capacities 0..MaxN of Gpt<N> are explored.
MaxN == 2

\* Header::write calls on one header.
MaxHeaderWrites == 2

\* Device faults (write-callback errors and tampering) per behaviour.
MaxFaults == 2

-----------------------------------------------------------------------------
(* Program constants *)

MBR_SIZE == 512

PARTITION_ENTRY_SIZE == 128

MIN_PARTITION_BYTES == 16384

TEN_MIB_BYTES == 10 * 1024 * 1024

BlockSizes == {512, 4096}

DiskSizes == {TEN_MIB_BYTES}

Uuids == {1, 2}

-----------------------------------------------------------------------------
(* Types: Block, Offset, Size *)

\* (disk_size / block_size) - 1
LastLba(ds, bs) == (ds \div bs) - 1

\* Block::into_offset
into_offset(lba, bs) == lba * bs

\* Offset / BlockSize -> Block
offset_to_block(off, bs) == off \div bs

-----------------------------------------------------------------------------
(* Partition entries *)

\* Partition::new(): the unused sentinel, an all-zero entry.
Partition_new == [ptype |-> 0, guid |-> 0, start |-> 0, end |-> 0]

\* The partitions callers hand to add_partition; start and end are byte
\* offsets, block aligned for every block size of the model.
\*   PartA, PartC: disjoint, inside the usable range of every geometry
\*   PartB: starts before PartA and ends inside it
\*   PartD: inside the primary partition array (below first_usable_lba)
At(mib, kib) == mib * 1024 * 1024 + kib * 1024

PartA == [ptype |-> 1, guid |-> 1, start |-> At(8, 256), end |-> At(8, 512)]

PartB == [ptype |-> 1, guid |-> 2, start |-> At(8, 0), end |-> At(8, 384)]

PartC == [ptype |-> 1, guid |-> 3, start |-> At(9, 0), end |-> At(9, 256)]

PartD == [ptype |-> 1, guid |-> 4, start |-> At(0, 8), end |-> At(0, 12)]

Candidates == {PartA, PartB, PartC, PartD}

\* Partition::to_bytes: addresses are stored on disk as block addresses.
Partition_to_bytes(p, bs) ==
    [ptype |-> p.ptype, guid |-> p.guid,
     start_lba |-> offset_to_block(p.start, bs),
     end_lba |-> offset_to_block(p.end, bs)]

\* The all-zero 128 bytes of an unwritten or unused entry slot.
ZeroEntry == [ptype |-> 0, guid |-> 0, start_lba |-> 0, end_lba |-> 0]

\* Partition::from_bytes
Partition_from_bytes(e, bs) ==
    [ptype |-> e.ptype, guid |-> e.guid,
     start |-> into_offset(e.start_lba, bs),
     end |-> into_offset(e.end_lba, bs)]

-----------------------------------------------------------------------------
(* Gpt<N>: the in-memory table *)

\* default_partitions(): N unused entries.
default_partitions(n) == [i \in 1..n |-> Partition_new]

\* Gpt::with_uuid
with_uuid(uuid, n) ==
    [uuid |-> uuid, partitions |-> default_partitions(n), partitions_len |-> 0]

Min(a, b) == IF a < b THEN a ELSE b

\* Gpt::partitions (and partitions_mut): the first
\* min(partitions_len, N) slots of the array.
partitions(g) ==
    SubSeq(g.partitions, 1, Min(g.partitions_len, Len(g.partitions)))

\* Gpt::check_overlap: TRUE iff Err(Error::Overlap).
check_overlap(g, part) ==
    \E i \in 1..Len(partitions(g)) :
        LET existing == partitions(g)[i] IN
        part.start >= existing.start /\ part.start <= existing.end

\* The outcomes of sort_unstable_by_key(|p| p.start()) on s: every
\* rearrangement of s in non-decreasing start order.
sort_unstable_by_key(s) ==
    { t \in [1..Len(s) -> {s[i] : i \in 1..Len(s)}] :
        /\ \A i \in 1..(Len(s) - 1) : t[i].start <= t[i + 1].start
        /\ \A x \in {s[i] : i \in 1..Len(s)} :
              Cardinality({i \in 1..Len(s) : s[i] = x})
                  = Cardinality({i \in 1..Len(s) : t[i] = x}) }

\* The array with its first Len(t) slots replaced by t.
WithPrefix(arr, t) ==
    [i \in 1..Len(arr) |-> IF i <= Len(t) THEN t[i] ELSE arr[i]]

\* add_partition with the slot stored before the overlap check.
add_partition_store_first(g, part) ==
    LET len == Min(g.partitions_len, Len(g.partitions)) IN
    IF len >= Len(g.partitions)
    THEN {[res |-> "panic", gpt |-> g]}
    ELSE LET g0 == [g EXCEPT !.partitions[len + 1] = part]
             g1 == [g0 EXCEPT !.partitions_len = g.partitions_len + 1]
         IN IF check_overlap(g, part)
            THEN {[res |-> "Overlap", gpt |-> g0]}
            ELSE { [res |-> "Ok", gpt |-> [g1 EXCEPT !.partitions = WithPrefix(g1.partitions, t)]]
                   : t \in sort_unstable_by_key(partitions(g1)) }

\* Gpt::add_partition: the outcomes [res, gpt] of adding part to g.
add_partition(g, part) ==
    LET len == Min(g.partitions_len, Len(g.partitions)) IN
    IF check_overlap(g, part)
    THEN {[res |-> "Overlap", gpt |-> g]}
    ELSE IF len >= Len(g.partitions)
    THEN \* self.partitions[len] indexes past the array
         {[res |-> "panic", gpt |-> g]}
    ELSE LET g1 == [g EXCEPT !.partitions[len + 1] = part,
                             !.partitions_len = g.partitions_len + 1]
         IN { [res |-> "Ok", gpt |-> [g1 EXCEPT !.partitions = WithPrefix(g1.partitions, t)]]
              : t \in sort_unstable_by_key(partitions(g1)) }

\* Gpt::remove_partition: the outcomes [res, gpt] of removing the entry at
\* the 0-based index of the partitions() slice.
remove_partition(g, index) ==
    IF index >= Len(partitions(g))
    THEN \* partitions_mut()[index] indexes past the slice
         {[res |-> "panic", gpt |-> g]}
    ELSE LET g1 == [g EXCEPT !.partitions[index + 1] = Partition_new,
                             !.partitions_len = g.partitions_len - 1]
         IN { [res |-> "Ok", gpt |-> [g1 EXCEPT !.partitions = WithPrefix(g1.partitions, t)]]
              : t \in sort_unstable_by_key(partitions(g1)) }

\* Gpt::set_uuid
set_uuid(g, uuid) == [g EXCEPT !.uuid = uuid]

-----------------------------------------------------------------------------
(* Protective MBR *)

\* A u64 is four 16-bit limbs, most significant first; a u32 is two. (The
\* model checker's integers are narrower than either.)
U64(x) == <<0, 0, x \div 65536, x % 65536>>

U32_MAX == <<65535, 65535>>

\* MbrPart::default(): sixteen zero bytes. size_lba is a u32 in limbs.
MbrPart_default ==
    [boot |-> 0, start_chs |-> 0, os_type |-> 0, end_chs |-> 0,
     start_lba |-> 0, size_lba |-> <<0, 0>>]

\* 512 zero bytes, viewed as a ProtectiveMbr.
ZeroMbr ==
    [boot_code |-> 0, unique_signature |-> 0, unknown |-> 0,
     partitions |-> <<MbrPart_default, MbrPart_default, MbrPart_default, MbrPart_default>>,
     signature |-> 0]

\* x as u32: the low 32 bits of a u64.
u32_truncate(x) == <<x[3], x[4]>>

\* u32::try_from(x).unwrap_or(u32::max_value()) on a u64: the conversion
\* fails when x does not fit 32 bits.
u32_try_from(x) == IF x[1] = 0 /\ x[2] = 0 THEN <<x[3], x[4]>> ELSE U32_MAX

\* ProtectiveMbr::new on a u64 last_lba. The struct is the 512 bytes
\* (to_bytes and from_bytes are pointer casts), so the record stands for both.
ProtectiveMbr_new(last_lba) ==
    [boot_code |-> 0, unique_signature |-> 0, unknown |-> 0,
     partitions |->
        <<[boot |-> 0, start_chs |-> 512, os_type |-> 238, end_chs |-> 16777215,
           start_lba |-> 1,
           size_lba |-> u32_try_from(last_lba)],
          MbrPart_default, MbrPart_default, MbrPart_default>>,
     signature |-> 43605]

\* ProtectiveMbr::validate: TRUE iff Ok(()).
ProtectiveMbr_validate(mbr) ==
    LET part == mbr.partitions[1] IN
    /\ mbr.unique_signature = 0
    /\ mbr.unknown = 0
    /\ part.boot = 0
    /\ part.start_chs = 512
    /\ part.os_type = 238
    /\ part.end_chs = 16777215
    /\ part.start_lba = 1
    /\ part.size_lba # <<0, 0>>
    /\ \A i \in 2..4 : mbr.partitions[i] = MbrPart_default
    /\ mbr.signature = 43605

\* ProtectiveMbr::from_bytes: a view of the block, given after validate.
ProtectiveMbr_from_bytes(source) ==
    IF ProtectiveMbr_validate(source) THEN "Ok" ELSE "Mbr"

\* ProtectiveMbr::new of src/src/new/mbr.rs.
new_ProtectiveMbr_new(last_lba) ==
    [boot_code |-> 0, unique_signature |-> 0, unknown |-> 0,
     partitions |->
        <<[boot |-> 0, start_chs |-> 512, os_type |-> 238, end_chs |-> 16777215,
           start_lba |-> 1,
           size_lba |-> u32_try_from(last_lba)],
          MbrPart_default, MbrPart_default, MbrPart_default>>,
     signature |-> 43605]

\* ProtectiveMbr::read of src/src/new/mbr.rs: "Ok" or the error kind.
ProtectiveMbr_read(source) ==
    LET other == {i \in 1..4 : source.partitions[i].os_type \notin {238, 0}}
        first == CHOOSE i \in other : \A j \in other : i <= j
    IN IF source.signature # 43605 THEN "Corrupt"
       ELSE IF other # {}
       THEN IF source.partitions[first].os_type = 239 THEN "Unsupported"
            ELSE "NotProtective"
       ELSE IF \E i \in 2..4 : source.partitions[i] # MbrPart_default
       THEN "NotProtective"
       ELSE "Ok"

-----------------------------------------------------------------------------
(* GPT header *)

SIGNATURE == "EFI PART"

REVISION == 65536

MIN_HEADER_SIZE == 92

\* CRC32 (IEEE), abstracted as collision free: the checksum of a byte
\* string is a tag of that string, so two checksums agree iff the data do.
Crc32(data) == <<"crc32", data>>

\* The four zero bytes of a CRC field in a zeroed block.
ZeroCrc == <<"crc32", <<>>>>

CeilDiv(a, b) == (a + b - 1) \div b

Max(a, b) == IF a > b THEN a ELSE b

\* Header::new(this, alt, partitions, partitions_crc32, uuid, block_size,
\* disk_size) of the table codec; first_usable is that of the default
\* (Optimal) alignment.
Header_new(this, alt, count, crc, uuid, bs, ds) ==
    LET array_blocks == CeilDiv(Max(MIN_PARTITION_BYTES, count * PARTITION_ENTRY_SIZE), bs)
        last == LastLba(ds, bs)
        last_usable == last - array_blocks - 1
    IN [this |-> this, alt |-> alt,
        first_usable |-> 2048,
        last_usable |-> last_usable,
        uuid |-> uuid,
        array |-> IF this = 1 THEN 2 ELSE last_usable + 1,
        partitions |-> count,
        partitions_crc32 |-> crc]

\* The header bytes the CRC covers: every field but header_crc32.
HeaderCrcInput(b) ==
    <<b.signature, b.revision, b.header_size, b.this_lba, b.alt_lba,
      b.first_usable_lba, b.last_usable_lba, b.disk_guid,
      b.partition_array_start, b.partitions, b.partition_size, b.partitions_crc32>>

\* Header::to_bytes: the 92 header bytes, CRC patched in.
Header_to_bytes(h) ==
    LET b == [signature |-> SIGNATURE, revision |-> REVISION,
              header_size |-> MIN_HEADER_SIZE, header_crc32 |-> ZeroCrc,
              this_lba |-> h.this, alt_lba |-> h.alt,
              first_usable_lba |-> h.first_usable, last_usable_lba |-> h.last_usable,
              disk_guid |-> h.uuid, partition_array_start |-> h.array,
              partitions |-> h.partitions, partition_size |-> PARTITION_ENTRY_SIZE,
              partitions_crc32 |-> h.partitions_crc32]
    IN [b EXCEPT !.header_crc32 = Crc32(HeaderCrcInput(b))]

\* A zeroed header block.
ZeroHeader ==
    [signature |-> "", revision |-> 0, header_size |-> 0, header_crc32 |-> ZeroCrc,
     this_lba |-> 0, alt_lba |-> 0, first_usable_lba |-> 0, last_usable_lba |-> 0,
     disk_guid |-> 0, partition_array_start |-> 0, partitions |-> 0,
     partition_size |-> 0, partitions_crc32 |-> ZeroCrc]

\* Header::from_bytes: [res, header]; res is "Ok" or the error kind.
Header_from_bytes(b, bs) ==
    LET h == [this |-> b.this_lba, alt |-> b.alt_lba,
              first_usable |-> b.first_usable_lba, last_usable |-> b.last_usable_lba,
              uuid |-> b.disk_guid, array |-> b.partition_array_start,
              partitions |-> b.partitions, partitions_crc32 |-> b.partitions_crc32]
    IN [res |-> IF b.signature # SIGNATURE THEN "InvalidSignature"
                ELSE IF b.revision # REVISION THEN "InvalidRevision"
                ELSE IF b.header_size < MIN_HEADER_SIZE \/ b.header_size > bs
                     THEN "InvalidHeaderSize"
                ELSE IF b.header_crc32 # Crc32(HeaderCrcInput(b)) THEN "BadHeaderCrc"
                ELSE "Ok",
        header |-> h]

\* The Header struct of src/src/new/header.rs. It is repr(C, packed), and
\* read and write view it as its 92 bytes, so a Header value is those bytes,
\* field by field. A zeroed one:
new_ZeroHeader ==
    [signature |-> "", revision |-> 0, header_size |-> 0, header_crc32 |-> ZeroCrc,
     reserved |-> 0, this_lba |-> 0, alt_lba |-> 0, first_usable_lba |-> 0,
     last_usable_lba |-> 0, disk_guid |-> 0, partition_array_start |-> 0,
     partitions |-> 0, partition_size |-> 0, partitions_crc32 |-> ZeroCrc]

\* Header::new evaluates (disk_size / block_size) - 1 and
\* last - array_lba_size - 1 on u64 values: a division by zero panics, and a
\* subtraction below zero panics in a build with overflow checks and wraps
\* in one without.
new_Header_new_div_zero(ds, bs) == bs = 0

new_Header_new_underflow(ds, bs) ==
    \/ ds \div bs < 1
    \/ (ds \div bs) - 1 < (MIN_PARTITION_BYTES \div bs) + 1

\* Header::new(kind, align, partitions_crc32, partitions, disk_guid,
\* disk_size, block_size) of src/src/new/header.rs, for block_size > 0;
\* header_crc32 starts as zero. A negative LBA x stands for the wrapped u64
\* value 2^64 + x.
new_Header_new(kind, align, crc, count, guid, ds, bs) ==
    LET array_lba_size == MIN_PARTITION_BYTES \div bs
        last == (ds \div bs) - 1
        last_usable_lba == last - array_lba_size - 1
        alt == last
    IN [signature |-> SIGNATURE, revision |-> REVISION,
        header_size |-> MIN_HEADER_SIZE, header_crc32 |-> ZeroCrc,
        reserved |-> 0,
        this_lba |-> IF kind = "Primary" THEN 1 ELSE alt,
        alt_lba |-> IF kind = "Backup" THEN 1 ELSE alt,
        first_usable_lba |-> IF align = "Optimal" THEN 2048 ELSE array_lba_size + 2,
        last_usable_lba |-> last_usable_lba,
        disk_guid |-> guid,
        partition_array_start |-> IF kind = "Primary" THEN 2 ELSE last_usable_lba + 1,
        partitions |-> count,
        partition_size |-> PARTITION_ENTRY_SIZE,
        partitions_crc32 |-> crc]

\* Header::write of src/src/new/header.rs: the digest is fed the raw bytes of
\* self, header_crc32 as it is; the sum is stored at bytes 16..20 of self and
\* self is copied to dest. The value is both self after the call and dest.
new_Header_write(h) ==
    [h EXCEPT !.header_crc32 = Crc32(h)]

\* The byte offset at which each field of the packed Header ends.
HeaderFieldEnd ==
    [signature |-> 8, revision |-> 12, header_size |-> 16, header_crc32 |-> 20,
     reserved |-> 24, this_lba |-> 32, alt_lba |-> 40, first_usable_lba |-> 48,
     last_usable_lba |-> 56, disk_guid |-> 72, partition_array_start |-> 80,
     partitions |-> 84, partition_size |-> 88, partitions_crc32 |-> 92]

\* source[..size] of a MIN_HEADER_SIZE-byte source, for a size that ends on
\* a field: the whole source, or the fields that lie in the first size bytes.
HeaderPrefix(source, size) ==
    IF size = MIN_HEADER_SIZE THEN source
    ELSE [size |-> size,
          bytes |-> [f \in {g \in DOMAIN HeaderFieldEnd : HeaderFieldEnd[g] <= size}
                        |-> source[f]]]

\* Header::validate with the CRC compared before the signature is looked at.
new_Header_validate_crc_first(source, this_lba) ==
    IF source.header_size > MIN_HEADER_SIZE \/ source.header_size < 20 THEN "Slice"
    ELSE IF source.header_crc32
              # Crc32(HeaderPrefix([source EXCEPT !.header_crc32 = ZeroCrc],
                                   source.header_size))
         THEN "Invalid CRC"
    ELSE IF source.signature # SIGNATURE THEN "Invalid Signature"
    ELSE IF source.this_lba # this_lba THEN "Invalid this_lba"
    ELSE "Ok"

\* Header::validate of src/src/new/header.rs on a MIN_HEADER_SIZE-byte source:
\* "Ok", or the check that panics. The CRC is that of source[..header_size]
\* with four zero bytes in place of bytes 16..20; "Slice" is the panic of a
\* slice index out of range: source[..header_size] with header_size over
\* the source's length, source[..16] or source[20..] with header_size under
\* 20.
new_Header_validate(source, this_lba) ==
    IF source.signature # SIGNATURE THEN "Invalid Signature"
    ELSE IF source.header_size > MIN_HEADER_SIZE \/ source.header_size < 20 THEN "Slice"
    ELSE IF source.header_crc32
              # Crc32(HeaderPrefix([source EXCEPT !.header_crc32 = ZeroCrc],
                                   source.header_size))
         THEN "Invalid CRC"
    ELSE IF source.this_lba # this_lba THEN "Invalid this_lba"
    ELSE "Ok"

\* Header::read of src/src/new/header.rs: a view of source, given after
\* validate.
new_Header_read(source, lba) == new_Header_validate(source, lba)

-----------------------------------------------------------------------------
(* The device *)

\* Byte offsets of the blocks the table codec addresses.
MbrSlot == 0

\* Where the read parses the primary header, and where the write puts it.
HeaderSlots(bs, ds) == {MBR_SIZE, into_offset(1, bs), into_offset(LastLba(ds, bs), bs)}

ArraySlots(start_lba, count, bs) ==
    {into_offset(start_lba, bs) + PARTITION_ENTRY_SIZE * i : i \in 0..(count - 1)}

EntrySlots(bs, ds, n) ==
    ArraySlots(2, n, bs)
        \cup ArraySlots(Header_new(LastLba(ds, bs), 1, n, ZeroCrc, 0, bs, ds).array, n, bs)

\* A zeroed device.
ZeroDisk(bs, ds, n) ==
    [o \in {MbrSlot} \cup HeaderSlots(bs, ds) \cup EntrySlots(bs, ds, n) |->
        IF o = MbrSlot THEN ZeroMbr
        ELSE IF o \in HeaderSlots(bs, ds) THEN ZeroHeader
        ELSE ZeroEntry]

\* The read callback on partition array data: the 128 bytes at off.
ReadEntry(d, off) == IF off \in DOMAIN d THEN d[off] ELSE ZeroEntry

\* The device after the write callback's calls, in order.
Apply(d, calls) ==
    [o \in DOMAIN d |->
        LET hits == {i \in 1..Len(calls) : calls[i].off = o} IN
        IF hits = {} THEN d[o]
        ELSE calls[CHOOSE i \in hits : \A j \in hits : j <= i].buf]

-----------------------------------------------------------------------------
(* Table write *)

\* write_header_array emitting the array before its header.
write_array_header(g, header, lba, bs) ==
    [i \in 1..Len(g.partitions) |->
          [off |-> into_offset(header.array, bs) + PARTITION_ENTRY_SIZE * (i - 1),
           what |-> "entry",
           buf |-> Partition_to_bytes(g.partitions[i], bs)]]
    \o <<[off |-> into_offset(lba, bs), what |-> "header", buf |-> Header_to_bytes(header)]>>

\* Gpt::write_header_array: the write callback's calls, in order.
write_header_array(g, header, lba, bs) ==
    <<[off |-> into_offset(lba, bs), what |-> "header", buf |-> Header_to_bytes(header)]>>
    \o [i \in 1..Len(g.partitions) |->
          [off |-> into_offset(header.array, bs) + PARTITION_ENTRY_SIZE * (i - 1),
           what |-> "entry",
           buf |-> Partition_to_bytes(g.partitions[i], bs)]]

\* The CRC of the partition array as the write computes it: over every slot
\* of the in-memory array.
parts_crc(g, bs) ==
    Crc32([i \in 1..Len(g.partitions) |-> Partition_to_bytes(g.partitions[i], bs)])

\* to_bytes_with_size carrying on with the remaining calls after the write
\* callback has failed, and reporting the error at the end.
to_bytes_with_size_carry_on(g, d, k, bs, ds) ==
    LET last_lba == LastLba(ds, bs)
        mbr_call == [off |-> 0, what |-> "mbr", buf |-> ProtectiveMbr_new(U64(last_lba))]
        crc == parts_crc(g, bs)
        alt == Header_new(last_lba, 1, Len(g.partitions), crc, g.uuid, bs, ds)
        primary == Header_new(1, last_lba, Len(g.partitions), crc, g.uuid, bs, ds)
        all == <<mbr_call>>
                 \o write_header_array(g, alt, last_lba, bs)
                 \o write_header_array(g, primary, 1, bs)
    IN IF k = 0 \/ k > Len(all)
       THEN [res |-> "Ok", disk |-> Apply(d, all), calls |-> all]
       ELSE [res |-> "Io",
             disk |-> Apply(d, SubSeq(all, 1, k - 1) \o SubSeq(all, k + 1, Len(all))),
             calls |-> all]

\* to_bytes_with_size declaring in both headers the entries of the whole
\* tracked array region, while emitting and hashing the table's own.
to_bytes_with_size_region_count(g, d, k, bs, ds) ==
    LET last_lba == LastLba(ds, bs)
        mbr_call == [off |-> 0, what |-> "mbr", buf |-> ProtectiveMbr_new(U64(last_lba))]
        crc == parts_crc(g, bs)
        alt == Header_new(last_lba, 1, MaxN, crc, g.uuid, bs, ds)
        primary == Header_new(1, last_lba, MaxN, crc, g.uuid, bs, ds)
        out_of_bounds ==
            \E i \in 1..Len(partitions(g)) :
                LET a == offset_to_block(partitions(g)[i].start, bs)
                    b == offset_to_block(partitions(g)[i].end, bs)
                IN (a < alt.first_usable) \/ (b > alt.last_usable)
        all == <<mbr_call>>
                 \o write_header_array(g, alt, last_lba, bs)
                 \o write_header_array(g, primary, 1, bs)
    IN IF k = 1
       THEN [res |-> "Io", disk |-> d, calls |-> <<mbr_call>>]
       ELSE IF out_of_bounds
       THEN [res |-> "NotEnough", disk |-> Apply(d, <<mbr_call>>), calls |-> <<mbr_call>>]
       ELSE IF k = 0 \/ k > Len(all)
       THEN [res |-> "Ok", disk |-> Apply(d, all), calls |-> all]
       ELSE [res |-> "Io", disk |-> Apply(d, SubSeq(all, 1, k - 1)),
             calls |-> SubSeq(all, 1, k)]

\* Gpt::to_bytes_with_size on device d; the write callback fails on its
\* k-th call (k = 0: it never fails). [res, disk, calls]: the outcome, the
\* device afterwards and the calls made.
to_bytes_with_size(g, d, k, bs, ds) ==
    LET last_lba == LastLba(ds, bs)
        mbr_call == [off |-> 0, what |-> "mbr", buf |-> ProtectiveMbr_new(U64(last_lba))]
        crc == parts_crc(g, bs)
        alt == Header_new(last_lba, 1, Len(g.partitions), crc, g.uuid, bs, ds)
        primary == Header_new(1, last_lba, Len(g.partitions), crc, g.uuid, bs, ds)
        out_of_bounds ==
            \E i \in 1..Len(partitions(g)) :
                LET a == offset_to_block(partitions(g)[i].start, bs)
                    b == offset_to_block(partitions(g)[i].end, bs)
                IN (a < alt.first_usable) \/ (b > alt.last_usable)
        all == <<mbr_call>>
                 \o write_header_array(g, alt, last_lba, bs)
                 \o write_header_array(g, primary, 1, bs)
    IN IF k = 1
       THEN [res |-> "Io", disk |-> d, calls |-> <<mbr_call>>]
       ELSE IF out_of_bounds
       THEN [res |-> "NotEnough", disk |-> Apply(d, <<mbr_call>>), calls |-> <<mbr_call>>]
       ELSE IF k = 0 \/ k > Len(all)
       THEN [res |-> "Ok", disk |-> Apply(d, all), calls |-> all]
       ELSE [res |-> "Io", disk |-> Apply(d, SubSeq(all, 1, k - 1)),
             calls |-> SubSeq(all, 1, k)]

\* Number of callback calls of a complete write of a Gpt<n>.
WriteCallCount(n) == 1 + 2 * (1 + n)

-----------------------------------------------------------------------------
(* Table read *)

\* calculate_part_crc: the entries the read callback delivers, in order;
\* each is hashed and handed to the caller's closure.
array_entries(d, count, array_lba, bs) ==
    [i \in 1..count |->
        ReadEntry(d, into_offset(array_lba, bs) + PARTITION_ENTRY_SIZE * (i - 1))]

\* The closure from_bytes_with_size passes to validate, run over one array:
\* slot i of the in-memory array is set from entry i while i < N.
store_entries(parts, entries, bs) ==
    [i \in 1..Len(parts) |->
        IF i <= Len(entries) THEN Partition_from_bytes(entries[i], bs) ELSE parts[i]]

\* The offsets calculate_part_crc asks the read callback for: one call per
\* entry of the array, in index order.
array_calls(count, array_lba, bs) ==
    [i \in 1..count |-> into_offset(array_lba, bs) + PARTITION_ENTRY_SIZE * (i - 1)]

\* validate comparing an array's CRC only when the whole array fits the
\* in-memory capacity.
validate_within_capacity(primary, alt, d, k, bs, ds, parts) ==
    LET last_lba == LastLba(ds, bs)
        e1 == array_entries(d, primary.partitions, primary.array, bs)
        c1 == array_calls(primary.partitions, primary.array, bs)
        parts1 == store_entries(parts, e1, bs)
        e2 == array_entries(d, alt.partitions, alt.array, bs)
        c2 == array_calls(alt.partitions, alt.array, bs)
        parts2 == store_entries(parts1, e2, bs)
    IN IF primary.this # 1
       THEN [res |-> "Corrupt Primary GPT Header", partitions |-> parts, calls |-> <<>>]
       ELSE IF k >= 1 /\ k <= Len(c1)
       THEN [res |-> "Io",
             partitions |-> store_entries(parts, SubSeq(e1, 1, k - 1), bs),
             calls |-> SubSeq(c1, 1, k)]
       ELSE IF primary.partitions <= Len(parts) /\ Crc32(e1) # primary.partitions_crc32
       THEN [res |-> "Primary Partition Array CRC32 mismatch", partitions |-> parts1,
             calls |-> c1]
       ELSE IF primary.alt # last_lba
       THEN [res |-> "Corrupt Primary GPT Header", partitions |-> parts1, calls |-> c1]
       ELSE IF alt.this # last_lba
       THEN [res |-> "Corrupt Backup GPT Header", partitions |-> parts1, calls |-> c1]
       ELSE IF alt.alt # 1
       THEN [res |-> "Corrupt Backup GPT Header", partitions |-> parts1, calls |-> c1]
       ELSE IF k > Len(c1) /\ k <= Len(c1) + Len(c2)
       THEN [res |-> "Io",
             partitions |-> store_entries(parts1, SubSeq(e2, 1, k - Len(c1) - 1), bs),
             calls |-> c1 \o SubSeq(c2, 1, k - Len(c1))]
       ELSE IF alt.partitions <= Len(parts) /\ Crc32(e2) # alt.partitions_crc32
       THEN [res |-> "Backup Partition Array CRC32 mismatch", partitions |-> parts2,
             calls |-> c1 \o c2]
       ELSE [res |-> "Ok", partitions |-> parts2, calls |-> c1 \o c2]

\* validate, with a read callback that fails on its k-th call (k = 0: it
\* never fails). [res, partitions, calls]: the outcome, the in-memory array
\* the closure has filled, and the offsets the callback was called with.
validate(primary, alt, d, k, bs, ds, parts) ==
    LET last_lba == LastLba(ds, bs)
        e1 == array_entries(d, primary.partitions, primary.array, bs)
        c1 == array_calls(primary.partitions, primary.array, bs)
        parts1 == store_entries(parts, e1, bs)
        e2 == array_entries(d, alt.partitions, alt.array, bs)
        c2 == array_calls(alt.partitions, alt.array, bs)
        parts2 == store_entries(parts1, e2, bs)
    IN IF primary.this # 1
       THEN [res |-> "Corrupt Primary GPT Header", partitions |-> parts, calls |-> <<>>]
       ELSE IF k >= 1 /\ k <= Len(c1)
       THEN [res |-> "Io",
             partitions |-> store_entries(parts, SubSeq(e1, 1, k - 1), bs),
             calls |-> SubSeq(c1, 1, k)]
       ELSE IF Crc32(e1) # primary.partitions_crc32
       THEN [res |-> "Primary Partition Array CRC32 mismatch", partitions |-> parts1,
             calls |-> c1]
       ELSE IF primary.alt # last_lba
       THEN [res |-> "Corrupt Primary GPT Header", partitions |-> parts1, calls |-> c1]
       ELSE IF alt.this # last_lba
       THEN [res |-> "Corrupt Backup GPT Header", partitions |-> parts1, calls |-> c1]
       ELSE IF alt.alt # 1
       THEN [res |-> "Corrupt Backup GPT Header", partitions |-> parts1, calls |-> c1]
       ELSE IF k > Len(c1) /\ k <= Len(c1) + Len(c2)
       THEN [res |-> "Io",
             partitions |-> store_entries(parts1, SubSeq(e2, 1, k - Len(c1) - 1), bs),
             calls |-> c1 \o SubSeq(c2, 1, k - Len(c1))]
       ELSE IF Crc32(e2) # alt.partitions_crc32
       THEN [res |-> "Backup Partition Array CRC32 mismatch", partitions |-> parts2,
             calls |-> c1 \o c2]
       ELSE [res |-> "Ok", partitions |-> parts2, calls |-> c1 \o c2]

\* from_bytes_with_size returning what was stored so far when the read
\* callback fails.
from_bytes_with_size_partial(d, n, k, bs, ds) ==
    LET primary == Header_from_bytes(d[MBR_SIZE], bs)
        alt == Header_from_bytes(d[into_offset(LastLba(ds, bs), bs)], bs)
        v == validate(primary.header, alt.header, d, k, bs, ds, default_partitions(n))
        none == with_uuid(0, n)
    IN IF ~ProtectiveMbr_validate(d[MbrSlot])
       THEN [res |-> "Invalid Protective MBR", gpt |-> none, calls |-> <<>>]
       ELSE IF primary.res # "Ok" THEN [res |-> primary.res, gpt |-> none, calls |-> <<>>]
       ELSE IF alt.res # "Ok" THEN [res |-> alt.res, gpt |-> none, calls |-> <<>>]
       ELSE IF v.res \notin {"Ok", "Io"} THEN [res |-> v.res, gpt |-> none, calls |-> v.calls]
       ELSE [res |-> "Ok",
             gpt |-> [uuid |-> primary.header.uuid,
                      partitions |-> v.partitions,
                      partitions_len |->
                          Cardinality({i \in 1..n : v.partitions[i] # Partition_new})],
             calls |-> v.calls]

\* from_bytes_with_size looking at the Protective MBR after the headers
\* and arrays.
from_bytes_with_size_mbr_last(d, n, k, bs, ds) ==
    LET primary == Header_from_bytes(d[MBR_SIZE], bs)
        alt == Header_from_bytes(d[into_offset(LastLba(ds, bs), bs)], bs)
        v == validate(primary.header, alt.header, d, k, bs, ds, default_partitions(n))
        none == with_uuid(0, n)
    IN IF primary.res # "Ok" THEN [res |-> primary.res, gpt |-> none, calls |-> <<>>]
       ELSE IF alt.res # "Ok" THEN [res |-> alt.res, gpt |-> none, calls |-> <<>>]
       ELSE IF v.res # "Ok" THEN [res |-> v.res, gpt |-> none, calls |-> v.calls]
       ELSE IF ~ProtectiveMbr_validate(d[MbrSlot])
       THEN [res |-> "Invalid Protective MBR", gpt |-> none, calls |-> v.calls]
       ELSE [res |-> "Ok",
             gpt |-> [uuid |-> primary.header.uuid,
                      partitions |-> v.partitions,
                      partitions_len |->
                          Cardinality({i \in 1..n : v.partitions[i] # Partition_new})],
             calls |-> v.calls]

\* Gpt::from_reader_with_size and from_bytes_with_size on device d, with
\* capacity n and a read callback failing on its k-th call: primary is the
\* first two blocks, alt the last block. [res, gpt, calls]; gpt is the table
\* returned when res = "Ok".
from_bytes_with_size(d, n, k, bs, ds) ==
    LET primary == Header_from_bytes(d[MBR_SIZE], bs)
        alt == Header_from_bytes(d[into_offset(LastLba(ds, bs), bs)], bs)
        v == validate(primary.header, alt.header, d, k, bs, ds, default_partitions(n))
        none == with_uuid(0, n)
    IN IF ~ProtectiveMbr_validate(d[MbrSlot])
       THEN [res |-> "Invalid Protective MBR", gpt |-> none, calls |-> <<>>]
       ELSE IF primary.res # "Ok" THEN [res |-> primary.res, gpt |-> none, calls |-> <<>>]
       ELSE IF alt.res # "Ok" THEN [res |-> alt.res, gpt |-> none, calls |-> <<>>]
       ELSE IF v.res # "Ok" THEN [res |-> v.res, gpt |-> none, calls |-> v.calls]
       ELSE [res |-> "Ok",
             gpt |-> [uuid |-> primary.header.uuid,
                      partitions |-> v.partitions,
                      partitions_len |->
                          Cardinality({i \in 1..n : v.partitions[i] # Partition_new})],
             calls |-> v.calls]

-----------------------------------------------------------------------------
(* The state machine *)

NoArg == [part |-> Partition_new, index |-> 0, uuid |-> 0, k |-> 0, off |-> 0, n |-> 0]

\* No block codec call has been made: zeroed buffers.
NoCodec ==
    [mbr |-> ZeroMbr, out |-> ZeroMbr, last_lba |-> U64(0),
     hdr |-> new_ZeroHeader, hbytes |-> new_ZeroHeader, hprev |-> new_ZeroHeader,
     writes |-> 0, ds |-> 0, bs |-> 0, count |-> 0, lba |-> 0, why |-> ""]

Init ==
    /\ block_size \in BlockSizes
    /\ disk_size \in DiskSizes
    /\ N \in 0..MaxN
    /\ \E u \in Uuids : gpt = with_uuid(u, N)
    /\ disk = ZeroDisk(block_size, disk_size, N)
    /\ op = "with_uuid"
    /\ result = "Ok"
    /\ arg = NoArg
    /\ wlog = <<>>
    /\ rlog = <<>>
    /\ faults = 0
    /\ codec = NoCodec

\* A panic ends the program.
Running == result # "panic"

AddPartition(p) ==
    /\ Running
    /\ \E o \in add_partition(gpt, p) :
          /\ gpt' = o.gpt
          /\ result' = o.res
    /\ op' = "add_partition"
    /\ arg' = [NoArg EXCEPT !.part = p]
    /\ wlog' = <<>>
    /\ rlog' = <<>>
    /\ UNCHANGED codec
    /\ UNCHANGED <<geometry, disk, faults>>

RemovePartition(index) ==
    /\ Running
    /\ \E o \in remove_partition(gpt, index) :
          /\ gpt' = o.gpt
          /\ result' = o.res
    /\ op' = "remove_partition"
    /\ arg' = [NoArg EXCEPT !.index = index]
    /\ wlog' = <<>>
    /\ rlog' = <<>>
    /\ UNCHANGED codec
    /\ UNCHANGED <<geometry, disk, faults>>

SetUuid(u) ==
    /\ Running
    /\ u # gpt.uuid
    /\ gpt' = set_uuid(gpt, u)
    /\ op' = "set_uuid"
    /\ result' = "Ok"
    /\ arg' = [NoArg EXCEPT !.uuid = u]
    /\ wlog' = <<>>
    /\ rlog' = <<>>
    /\ UNCHANGED codec
    /\ UNCHANGED <<geometry, disk, faults>>

\* A table write whose callback fails on call k (k = 0: no failure).
Write(k) ==
    /\ Running
    /\ k > 0 => faults < MaxFaults
    /\ LET w == to_bytes_with_size(gpt, disk, k, block_size, disk_size) IN
          /\ disk' = w.disk
          /\ result' = w.res
          /\ wlog' = [i \in 1..Len(w.calls) |->
                         [off |-> w.calls[i].off, what |-> w.calls[i].what]]
    /\ faults' = IF k > 0 THEN faults + 1 ELSE faults
    /\ op' = "write"
    /\ arg' = [NoArg EXCEPT !.k = k]
    /\ rlog' = <<>>
    /\ UNCHANGED <<geometry, gpt, codec>>

\* A table read; the caller holds the table read when it succeeds.
Read ==
    /\ Running
    /\ LET r == from_bytes_with_size(disk, N, 0, block_size, disk_size) IN
          /\ result' = r.res
          /\ gpt' = IF r.res = "Ok" THEN r.gpt ELSE gpt
          /\ rlog' = r.calls
    /\ op' = "read"
    /\ arg' = [NoArg EXCEPT !.n = N]
    /\ wlog' = <<>>
    /\ UNCHANGED <<geometry, disk, faults, codec>>

\* What may replace the block at off when the device is tampered with:
\* zeroes, or a copy of another block of the same kind.
TamperChunks(off) ==
    IF off = MbrSlot THEN {ZeroMbr}
    ELSE IF off \in HeaderSlots(block_size, disk_size)
    THEN {ZeroHeader} \cup {disk[a] : a \in HeaderSlots(block_size, disk_size)}
    ELSE {ZeroEntry}
           \cup {disk[a] : a \in EntrySlots(block_size, disk_size, N)}

\* Something other than this library changes one block of the device.
Tamper(off, c) ==
    /\ Running
    /\ faults < MaxFaults
    /\ c # disk[off]
    /\ disk' = [disk EXCEPT ![off] = c]
    /\ faults' = faults + 1
    /\ op' = "tamper"
    /\ result' = "Ok"
    /\ arg' = [NoArg EXCEPT !.off = off]
    /\ wlog' = <<>>
    /\ rlog' = <<>>
    /\ UNCHANGED codec
    /\ UNCHANGED <<geometry, gpt>>

\* A table read whose read callback fails on its k-th call, a call the
\* read does make.
ReadFail(k) ==
    /\ Running
    /\ faults < MaxFaults
    /\ k >= 1
    /\ k <= Len(from_bytes_with_size(disk, N, 0, block_size, disk_size).calls)
    /\ LET r == from_bytes_with_size(disk, N, k, block_size, disk_size) IN
          /\ result' = r.res
          /\ gpt' = IF r.res = "Ok" THEN r.gpt ELSE gpt
          /\ rlog' = r.calls
    /\ faults' = faults + 1
    /\ op' = "read"
    /\ arg' = [NoArg EXCEPT !.n = N, !.k = k]
    /\ wlog' = <<>>
    /\ UNCHANGED <<geometry, disk, codec>>

\* A table read with another capacity n whose result the caller only
\* inspects: read_gpt_size::<Un>(&raw)?; the table read is dropped.
ReadAs(n) ==
    /\ Running
    /\ n # N
    /\ LET r == from_bytes_with_size(disk, n, 0, block_size, disk_size) IN
          /\ result' = r.res
          /\ rlog' = r.calls
    /\ op' = "read"
    /\ arg' = [NoArg EXCEPT !.n = n]
    /\ wlog' = <<>>
    /\ UNCHANGED <<geometry, gpt, disk, faults, codec>>

\* Protective MBR blocks other tools or faults leave on a device, derived
\* from the canonical block of the geometry:
\*   parted: start-CHS 00 01 00 and end-CHS FE FF FF, as GNU parted writes
\*   the others: one field off (signature, OS type, a second slot in use)
MbrParted(last_lba) ==
    [ProtectiveMbr_new(U64(last_lba)) EXCEPT
        !.partitions[1].start_chs = 256, !.partitions[1].end_chs = 16777214]

MbrVariants(last_lba) ==
    LET c == ProtectiveMbr_new(U64(last_lba)) IN
    { MbrParted(last_lba),
      [c EXCEPT !.signature = 0],
      [c EXCEPT !.partitions[1].os_type = 131],
      [c EXCEPT !.partitions[2].os_type = 239] }

\* Something other than this library rewrites the block at offset 0.
TamperMbr(m) ==
    /\ Running
    /\ faults < MaxFaults
    /\ m # disk[MbrSlot]
    /\ disk' = [disk EXCEPT ![MbrSlot] = m]
    /\ faults' = faults + 1
    /\ op' = "tamper"
    /\ result' = "Ok"
    /\ arg' = NoArg
    /\ wlog' = <<>>
    /\ rlog' = <<>>
    /\ UNCHANGED <<geometry, gpt, codec>>

\* The last_lba values handed to ProtectiveMbr::new: u64 values around 0,
\* 2^16, 2^32 and 2^48 and up to 2^64 - 1.
U64Samples == {<<a, b, c, d>> : a \in {0, 1}, b \in {0, 65535}, c \in {0, 1, 65535}, d \in {0, 1, 65535}}

\* The 512-byte blocks handed to the MBR readers: the canonical Protective
\* MBR of a 10 MiB device with any of its checked fields altered.
MbrBlocks ==
    { [boot_code |-> 0, unique_signature |-> us, unknown |-> 0,
       partitions |->
          <<[boot |-> bt, start_chs |-> sc, os_type |-> ot, end_chs |-> 16777215,
             start_lba |-> sl, size_lba |-> sz],
            [MbrPart_default EXCEPT !.os_type = ot2],
            MbrPart_default, MbrPart_default>>,
       signature |-> sg]
      : us \in {0, 1}, bt \in {0, 128}, sc \in {512, 256}, ot \in {238, 239, 0},
        sl \in {1, 2}, sz \in {<<0, 0>>, <<0, 20479>>}, ot2 \in {0, 239},
        sg \in {43605, 0} }

\* A behaviour holds one sequence of block codec calls: its operand is made
\* or loaded once, into fresh buffers, before any other call.
Fresh == op = "with_uuid" /\ codec = NoCodec

\* The table variables; the block codec calls leave them alone.
table == <<geometry, gpt, disk, wlog, rlog, faults>>

\* ProtectiveMbr::new(last_lba) serialized into the block buffer
\* (src/src/mbr.rs).
MbrNew(l) ==
    /\ Running
    /\ Fresh
    /\ codec' = [NoCodec EXCEPT !.mbr = ProtectiveMbr_new(l), !.last_lba = l]
    /\ op' = "mbr_new"
    /\ result' = "Ok"
    /\ arg' = NoArg
    /\ UNCHANGED table

\* ProtectiveMbr::new(last_lba) of src/src/new/mbr.rs serialized into the
\* block buffer.
NewMbrNew(l) ==
    /\ Running
    /\ Fresh
    /\ codec' = [NoCodec EXCEPT !.mbr = new_ProtectiveMbr_new(l), !.last_lba = l]
    /\ op' = "new_mbr_new"
    /\ result' = "Ok"
    /\ arg' = NoArg
    /\ UNCHANGED table

\* A block from another source is put into the block buffer.
MbrLoad(b) ==
    /\ Running
    /\ Fresh
    /\ codec' = [NoCodec EXCEPT !.mbr = b]
    /\ op' = "mbr_load"
    /\ result' = "Ok"
    /\ arg' = NoArg
    /\ UNCHANGED table

\* ProtectiveMbr::from_bytes on the block buffer and, when it is accepted,
\* to_bytes of the value read into the output buffer (tests::roundtrip).
MbrFromBytes ==
    /\ Running
    /\ result' = ProtectiveMbr_from_bytes(codec.mbr)
    /\ codec' = IF ProtectiveMbr_from_bytes(codec.mbr) = "Ok"
                THEN [codec EXCEPT !.out = codec.mbr]
                ELSE [codec EXCEPT !.out = ZeroMbr]
    /\ op' = "mbr_from_bytes"
    /\ arg' = NoArg
    /\ UNCHANGED table

\* ProtectiveMbr::read of src/src/new/mbr.rs on the block buffer and, when
\* it is accepted, write of the value read into the output buffer.
MbrRead ==
    /\ Running
    /\ result' = ProtectiveMbr_read(codec.mbr)
    /\ codec' = IF ProtectiveMbr_read(codec.mbr) = "Ok"
                THEN [codec EXCEPT !.out = codec.mbr]
                ELSE [codec EXCEPT !.out = ZeroMbr]
    /\ op' = "mbr_read"
    /\ arg' = NoArg
    /\ UNCHANGED table

\* The arguments Header::new is called with.
HeaderKinds == {"Primary", "Backup"}

\* Partition counts, device sizes and block sizes Header::new is called
\* with: counts up to and over 128; devices smaller than a block, of one
\* block and of 10 MiB; block sizes 0, 512, 4096 and one over 16384.
HeaderCounts == {0, 1, 256}

HeaderDiskSizes == {256, 512, TEN_MIB_BYTES}

HeaderBlockSizes == {0, 512, 4096, 32768}

Aligns == {"Optimal", "Minimal"}

\* Header::new of src/src/new/header.rs for a device of ds bytes in blocks
\* of bs bytes; nothing is written yet.
HeaderNew(kind, align, crc, count, guid, ds, bs) ==
    /\ Running
    /\ Fresh
    /\ \E o \in IF new_Header_new_div_zero(ds, bs) THEN {"panic"}
                ELSE IF new_Header_new_underflow(ds, bs) THEN {"panic", "Ok"}
                ELSE {"Ok"} :
          /\ result' = o
          /\ codec' = [NoCodec EXCEPT
                         !.hdr = IF o = "Ok"
                                 THEN new_Header_new(kind, align, crc, count, guid, ds, bs)
                                 ELSE new_ZeroHeader,
                         !.ds = ds, !.bs = bs, !.count = count]
    /\ op' = "header_new"
    /\ arg' = NoArg
    /\ UNCHANGED table

\* Header::write of the header held into the destination buffer; the buffer
\* of the write before is kept for comparison. The header is one Header::new
\* has made.
HeaderWrite ==
    /\ Running
    /\ codec.hdr # new_ZeroHeader
    /\ codec.writes < MaxHeaderWrites
    /\ codec' = [codec EXCEPT !.hdr = new_Header_write(codec.hdr),
                              !.hbytes = new_Header_write(codec.hdr),
                              !.hprev = codec.hbytes,
                              !.writes = codec.writes + 1]
    /\ op' = "header_write"
    /\ result' = "Ok"
    /\ arg' = NoArg
    /\ UNCHANGED table

\* The header blocks handed to the header readers: the primary header of a
\* 10 MiB device in 512-byte blocks, as Header::write emits it, with any of
\* its checked fields altered and the stored CRC either that of the first
\* header_size bytes or not; and an all-zero block.
HeaderBlocks ==
    LET h == new_Header_new("Primary", "Optimal", ZeroCrc, 0, 1, TEN_MIB_BYTES, 512)
        alter(sg, rv, hs, tl) ==
            [h EXCEPT !.signature = sg, !.revision = rv, !.header_size = hs,
                      !.this_lba = tl]
        crcs(b) ==
            {ZeroCrc} \cup
            (IF b.header_size \in 20..MIN_HEADER_SIZE
             THEN {Crc32(HeaderPrefix(b, b.header_size))} ELSE {})
    IN {new_ZeroHeader}
       \cup UNION { {[alter(sg, rv, hs, tl) EXCEPT !.header_crc32 = c]
                       : c \in crcs(alter(sg, rv, hs, tl))}
                    : sg \in {SIGNATURE, ""}, rv \in {REVISION, 0},
                      hs \in {MIN_HEADER_SIZE, 88, 16, 96}, tl \in {1, 2} }

\* A header block from another source is put into the buffer.
HeaderLoad(b) ==
    /\ Running
    /\ Fresh
    /\ codec' = [NoCodec EXCEPT !.hbytes = b]
    /\ op' = "header_load"
    /\ result' = "Ok"
    /\ arg' = NoArg
    /\ UNCHANGED table

\* Header::read of the buffer as the block at the LBA lba; a failed check
\* panics.
HeaderRead(lba) ==
    /\ Running
    /\ result' = IF new_Header_read(codec.hbytes, lba) = "Ok" THEN "Ok" ELSE "panic"
    /\ codec' = [codec EXCEPT !.lba = lba, !.why = new_Header_read(codec.hbytes, lba)]
    /\ op' = "header_read"
    /\ arg' = NoArg
    /\ UNCHANGED table

\* The table API on a device without faults.
Next ==
    \/ \E p \in Candidates : AddPartition(p)
    \/ \E index \in 0..MaxN : RemovePartition(index)
    \/ \E u \in Uuids : SetUuid(u)
    \/ Write(0)
    \/ Read

Spec == Init /\ [][Next]_vars

\* Writes and reads on a device with faults: write-callback errors and
\* tampering, at most MaxFaults of them.
DeviceCandidates == {PartA, PartC}

NextDevice ==
    \/ \E p \in DeviceCandidates : AddPartition(p)
    \/ \E u \in Uuids : SetUuid(u)
    \/ \E k \in 0..WriteCallCount(N) : Write(k)
    \/ Read
    \/ \E off \in DOMAIN disk : \E c \in TamperChunks(off) : Tamper(off, c)

SpecDevice == Init /\ [][NextDevice]_vars

\* Reads of device images: any capacity, failing read callbacks, images
\* changed by other tools.
NextRead ==
    \/ \E p \in DeviceCandidates : AddPartition(p)
    \/ Write(0)
    \/ Read
    \/ \E k \in 1..(2 * MaxN) : ReadFail(k)
    \/ \E n \in 0..MaxN : ReadAs(n)
    \/ \E off \in DOMAIN disk : \E c \in TamperChunks(off) : Tamper(off, c)
    \/ \E m \in MbrVariants(LastLba(disk_size, block_size)) : TamperMbr(m)

SpecRead == Init /\ [][NextRead]_vars

\* Tables of the full tracked capacity, as another tool or a Gpt of that
\* capacity holds them: empty, one partition, two partitions.
ImageTables ==
    LET t0 == {with_uuid(2, MaxN)}
        grow(ts, p) == UNION {{o.gpt : o \in {x \in add_partition(t, p) : x.res = "Ok"}}
                                : t \in ts}
    IN t0 \cup grow(t0, PartA) \cup grow(grow(t0, PartA), PartC)

\* The device is given the image of a table of the full tracked capacity
\* (tests::data: an image made by another tool).
Image(g) ==
    /\ Running
    /\ op = "with_uuid"
    /\ disk' = to_bytes_with_size(g, disk, 0, block_size, disk_size).disk
    /\ op' = "image"
    /\ result' = "Ok"
    /\ arg' = NoArg
    /\ wlog' = <<>>
    /\ rlog' = <<>>
    /\ UNCHANGED <<geometry, gpt, faults, codec>>

\* Tables of a small capacity over images of a larger one: the device
\* holds the array region of the full tracked capacity MaxN whatever the
\* capacity N of the table.
InitCapacity ==
    /\ block_size \in BlockSizes
    /\ disk_size \in DiskSizes
    /\ N \in 0..MaxN
    /\ \E u \in Uuids : gpt = with_uuid(u, N)
    /\ disk = ZeroDisk(block_size, disk_size, MaxN)
    /\ op = "with_uuid"
    /\ result = "Ok"
    /\ arg = NoArg
    /\ wlog = <<>>
    /\ rlog = <<>>
    /\ faults = 0
    /\ codec = NoCodec

NextCapacity ==
    \/ \E g \in ImageTables : Image(g)
    \/ Read
    \/ Write(0)
    \/ \E n \in 0..MaxN : ReadAs(n)

SpecCapacity == InitCapacity /\ [][NextCapacity]_vars

\* The block codecs on their own: one geometry, no table operation.
InitCodec ==
    /\ Init
    /\ block_size = 512
    /\ N = 0
    /\ gpt.uuid = 1

NextCodec ==
    \/ \E l \in U64Samples : MbrNew(l)
    \/ \E l \in U64Samples : NewMbrNew(l)
    \/ \E b \in MbrBlocks : MbrLoad(b)
    \/ MbrFromBytes
    \/ MbrRead
    \/ \E kind \in HeaderKinds : \E align \in Aligns :
       \E crc \in {ZeroCrc, Crc32(<<Partition_new>>)} : \E count \in HeaderCounts :
       \E guid \in Uuids : \E ds \in HeaderDiskSizes : \E bs \in HeaderBlockSizes :
          HeaderNew(kind, align, crc, count, guid, ds, bs)
    \/ HeaderWrite
    \/ \E b \in HeaderBlocks : HeaderLoad(b)
    \/ \E lba \in {1, LastLba(disk_size, block_size)} : HeaderRead(lba)

SpecCodec == InitCodec /\ [][NextCodec]_vars

-----------------------------------------------------------------------------
(* Claims *)

Used(p) == p # Partition_new

Overlaps(p, q) == p.start <= q.end /\ q.start <= p.end

\* The usable range, in blocks, of the table's geometry.
FirstUsable == Header_new(1, LastLba(disk_size, block_size), N, ZeroCrc, 0, block_size, disk_size).first_usable

LastUsable == Header_new(1, LastLba(disk_size, block_size), N, ZeroCrc, 0, block_size, disk_size).last_usable

\* s without its element at (1-based) position i.
RemoveAt(s, i) == [j \in 1..(Len(s) - 1) |-> IF j < i THEN s[j] ELSE s[j + 1]]

\* C1: no two distinct used partitions listed by partitions() share a
\* block, whichever of the two starts first.
C1_NoOverlap ==
    \A i, j \in 1..Len(partitions(gpt)) :
        (i < j /\ Used(partitions(gpt)[i]) /\ Used(partitions(gpt)[j]))
            => ~Overlaps(partitions(gpt)[i], partitions(gpt)[j])

\* C2: after remove_partition(i) with i < len(P), partitions() is P with its
\* element i removed, the others still listed in order.
C2_RemoveKeepsOthers ==
    [][(op' = "remove_partition" /\ result' = "Ok")
          => partitions(gpt') = RemoveAt(partitions(gpt), arg'.index + 1)]_vars

\* C3: partitions() lists exactly the used entries of the table, no unused
\* sentinel among them and no used entry of the array left out, in start order.
C3_ListsExactlyUsed ==
    /\ \A i \in 1..Len(partitions(gpt)) : Used(partitions(gpt)[i])
    /\ \A i \in 1..Len(gpt.partitions) :
          Used(gpt.partitions[i]) => i <= Len(partitions(gpt))
    /\ \A i \in 1..(Len(partitions(gpt)) - 1) :
          partitions(gpt)[i].start <= partitions(gpt)[i + 1].start

\* C4: every used partition of the table lies inside the usable range:
\* first_usable_lba <= start_lba <= end_lba <= last_usable_lba.
C4_InUsableRange ==
    \A i \in 1..Len(partitions(gpt)) :
        LET p == partitions(gpt)[i] IN
        Used(p) =>
            /\ FirstUsable <= offset_to_block(p.start, block_size)
            /\ offset_to_block(p.start, block_size) <= offset_to_block(p.end, block_size)
            /\ offset_to_block(p.end, block_size) <= LastUsable

\* C5: add_partition on a table holding N partitions returns an error value:
\* it does not panic, and the table is left as it was.
C5_FullReturnsError ==
    [][(op' = "add_partition" /\ Len(partitions(gpt)) = N)
          => (result' \notin {"Ok", "panic"} /\ gpt' = gpt)]_vars

\* C6: whenever add_partition returns an error, the disk UUID, the
\* partition array and the partition count are what they were before.
C6_FailedAddUnchanged ==
    [][(op' = "add_partition" /\ result' \notin {"Ok", "panic"}) => gpt' = gpt]_vars

\* An add_partition has failed on a table that holds a partition.
C6_Witness ==
    /\ op = "add_partition"
    /\ result = "Overlap"
    /\ Len(partitions(gpt)) >= 1
    /\ check_overlap(gpt, arg.part)

\* C7: a read that follows a successful write, with the same block size,
\* disk size and capacity, succeeds and returns the table written.
C7_WriteReadRoundTrip ==
    [][(op = "write" /\ result = "Ok" /\ op' = "read")
          => (result' = "Ok" /\ gpt' = gpt)]_vars

\* The calls writing one partition array of the table's geometry.
EntryCalls(array_lba) ==
    [i \in 1..N |->
        [off |-> into_offset(array_lba, block_size) + PARTITION_ENTRY_SIZE * (i - 1),
         what |-> "entry"]]

HeaderCall(lba) == <<[off |-> into_offset(lba, block_size), what |-> "header"]>>

MbrCall == <<[off |-> 0, what |-> "mbr"]>>

\* MBR, backup header, backup array, primary header, primary array.
HeaderFirstOrder ==
    MbrCall
      \o HeaderCall(LastLba(disk_size, block_size)) \o EntryCalls(LastUsable + 1)
      \o HeaderCall(1) \o EntryCalls(2)

\* MBR, backup array, backup header, primary array, primary header.
ArrayFirstOrder ==
    MbrCall
      \o EntryCalls(LastUsable + 1) \o HeaderCall(LastLba(disk_size, block_size))
      \o EntryCalls(2) \o HeaderCall(1)

IsPrefix(s, t) == Len(s) <= Len(t) /\ s = SubSeq(t, 1, Len(s))

\* C8 as stated: a table write calls the callback for the MBR, the backup
\* array, the backup header, the primary array, the primary header, each
\* array before the header that references it.
C8_ArrayBeforeHeader ==
    (op = "write" /\ result = "Ok") => wlog = ArrayFirstOrder

\* C8 as amended: a table write calls the callback for the MBR at offset 0,
\* the backup header at LastLBA*block_size, the backup array, the primary
\* header at 1*block_size, the primary array: each header before its array,
\* every backup write before every primary write; a write that stops early
\* has made a prefix of these calls.
C8_HeaderBeforeArray ==
    op = "write" =>
        /\ IsPrefix(wlog, HeaderFirstOrder)
        /\ result = "Ok" => wlog = HeaderFirstOrder

\* A complete write of a table with a partition array has happened.
C8_Witness ==
    /\ op = "write"
    /\ result = "Ok"
    /\ N >= 1
    /\ Len(partitions(gpt)) >= 1
    /\ Len(wlog) = WriteCallCount(N)

\* The header blocks at LBA 1 and at the last LBA of the device.
PrimaryBlock == disk[into_offset(1, block_size)]

BackupBlock == disk[into_offset(LastLba(disk_size, block_size), block_size)]

\* b is a valid header for location this, naming alt as its other copy.
HeaderValid(b, this, alt) ==
    /\ Header_from_bytes(b, block_size).res = "Ok"
    /\ b.this_lba = this
    /\ b.alt_lba = alt

\* The partition array header block b references matches b's array CRC.
ArrayValid(b) ==
    Crc32(array_entries(disk, b.partitions, b.partition_array_start, block_size))
        = b.partitions_crc32

PrimaryValid ==
    /\ HeaderValid(PrimaryBlock, 1, LastLba(disk_size, block_size))
    /\ ArrayValid(PrimaryBlock)

BackupValid ==
    /\ HeaderValid(BackupBlock, LastLba(disk_size, block_size), 1)
    /\ ArrayValid(BackupBlock)

\* C9: read returns a table only if the primary header, the primary array,
\* the backup header and the backup array all validate.
C9_StrictRead ==
    (op = "read" /\ result = "Ok") => (PrimaryValid /\ BackupValid)

\* C10: read never returns a table from a device whose primary and backup
\* headers, each valid with a matching array CRC, disagree on disk_guid or
\* on partitions_crc32.
C10_HeadersAgree ==
    (op = "read" /\ result = "Ok" /\ PrimaryValid /\ BackupValid)
        => /\ PrimaryBlock.disk_guid = BackupBlock.disk_guid
           /\ PrimaryBlock.partitions_crc32 = BackupBlock.partitions_crc32

\* The block the read parses the primary header from.
ParsedPrimaryBlock == disk[MBR_SIZE]

\* The on-disk entries of the array header block b references.
DiskArray(b) == array_entries(disk, b.partitions, b.partition_array_start, block_size)

\* C11: whatever the capacity of the table read into, a read succeeds only
\* if the CRC over all partitions_count on-disk entries of each array
\* matches the header that references it.
C11_FullArrayCrc ==
    (op = "read" /\ result = "Ok")
        => /\ ArrayValid(ParsedPrimaryBlock)
           /\ ArrayValid(BackupBlock)

\* A read into a capacity smaller than the on-disk entry count has failed on
\* the primary array CRC, and the array differs from one matching its header
\* in a single entry whose index is at or beyond the capacity.
C11_Witness ==
    /\ op = "read"
    /\ result = "Primary Partition Array CRC32 mismatch"
    /\ arg.n < ParsedPrimaryBlock.partitions
    /\ \E i \in (arg.n + 1)..ParsedPrimaryBlock.partitions :
          \E c \in {ZeroEntry} \cup {Partition_to_bytes(p, block_size) : p \in Candidates} :
              Crc32([DiskArray(ParsedPrimaryBlock) EXCEPT ![i] = c])
                  = ParsedPrimaryBlock.partitions_crc32

\* A used entry lies inside the usable range of the table's geometry.
InRange(p) ==
    /\ FirstUsable <= offset_to_block(p.start, block_size)
    /\ offset_to_block(p.start, block_size) <= offset_to_block(p.end, block_size)
    /\ offset_to_block(p.end, block_size) <= LastUsable

\* C12: every table a successful read returns satisfies I1 and I2: each used
\* entry lies inside [first_usable_lba, last_usable_lba] and no two used
\* entries overlap.
C12_ReadChecksInvariants ==
    (op = "read" /\ result = "Ok")
        => /\ \A i \in 1..Len(gpt.partitions) :
                 Used(gpt.partitions[i]) => InRange(gpt.partitions[i])
           /\ \A i, j \in 1..Len(gpt.partitions) :
                 (i < j /\ Used(gpt.partitions[i]) /\ Used(gpt.partitions[j]))
                     => ~Overlaps(gpt.partitions[i], gpt.partitions[j])

\* C13: when the read callback fails on its k-th call, the read returns the
\* error, the k-th call is the callback's last, and the caller's table is
\* what it was: no table is returned.
C13_ReadCallbackError ==
    [][(op' = "read" /\ arg'.k > 0)
          => (result' = "Io" /\ Len(rlog') = arg'.k /\ gpt' = gpt)]_vars

\* A read has failed on a callback call for the backup array, after the
\* primary array was read and stored.
C13_Witness ==
    /\ op = "read"
    /\ result = "Io"
    /\ arg.k > ParsedPrimaryBlock.partitions
    /\ ParsedPrimaryBlock.partitions >= 1
    /\ Len(rlog) = arg.k

\* C14: when the write callback fails on its k-th call, the write returns
\* the error, the k-th call is the callback's last, the device is changed
\* only where the calls before it wrote, and the in-memory table is unchanged.
C14_WriteCallbackError ==
    [][(op' = "write" /\ arg'.k > 0)
          => /\ result' = "Io"
             /\ Len(wlog') = arg'.k
             /\ gpt' = gpt
             /\ \A off \in DOMAIN disk :
                   disk'[off] # disk[off]
                       => \E i \in 1..(arg'.k - 1) : wlog'[i].off = off]_vars

\* A write has stopped at a failing call in the middle of the sequence,
\* after the backup copy was written.
C14_Witness ==
    /\ op = "write"
    /\ result = "Io"
    /\ N >= 1
    /\ arg.k > 2 + N
    /\ arg.k < WriteCallCount(N)
    /\ Len(wlog) = arg.k

\* A block is a Protective MBR in the sense of the format: boot signature
\* 55 AA, unique signature and unknown field zero, partition[0] not
\* bootable, of OS type 0xEE, starting at LBA 1, and the other three
\* partition records zero. The CHS fields are not constrained.
IsProtectiveMbr(m) ==
    /\ m.signature = 43605
    /\ m.unique_signature = 0
    /\ m.unknown = 0
    /\ m.partitions[1].boot = 0
    /\ m.partitions[1].os_type = 238
    /\ m.partitions[1].start_lba = 1
    /\ \A i \in 2..4 : m.partitions[i] = MbrPart_default

\* C15: a table read of an image whose first 512 bytes are not a Protective
\* MBR fails with the invalid-MBR error whatever the headers and arrays
\* hold, and the read callback is not called.
C15_MbrErrorFirst ==
    (op = "read" /\ ~IsProtectiveMbr(disk[MbrSlot]))
        => (result = "Invalid Protective MBR" /\ rlog = <<>>)

\* A read has failed on the MBR of an image whose headers and arrays are
\* valid and hold entries the callback would have been asked for.
C15_Witness ==
    /\ op = "read"
    /\ result = "Invalid Protective MBR"
    /\ ~IsProtectiveMbr(disk[MbrSlot])
    /\ Header_from_bytes(ParsedPrimaryBlock, block_size).res = "Ok"
    /\ ParsedPrimaryBlock.partitions >= 1
    /\ ArrayValid(ParsedPrimaryBlock)
    /\ BackupValid

\* The headers and arrays the read looks at are valid.
ParsedCopiesValid ==
    /\ HeaderValid(ParsedPrimaryBlock, 1, LastLba(disk_size, block_size))
    /\ ArrayValid(ParsedPrimaryBlock)
    /\ BackupValid

\* C16: a table read succeeds on an image whose Protective MBR differs from
\* the canonical one only in the start-CHS and end-CHS bytes of partition[0]
\* (as GNU parted writes them), the headers and arrays being valid.
C16_ChsTolerated ==
    ( /\ op = "read"
      /\ arg.k = 0
      /\ disk[MbrSlot] = MbrParted(LastLba(disk_size, block_size))
      /\ ParsedCopiesValid )
        => result = "Ok"

\* The block has a slot of OS type 0xEF (UEFI system partition).
HasUefiSlot(m) == \E i \in 1..4 : m.partitions[i].os_type = 239

\* C17: an MBR reader accepts a block only if its signature is 55 AA, its
\* unique-signature and unknown fields are zero, partition[0] has bootable 0,
\* OS type 0xEE and start-LBA 1, and partitions[1..3] are zero; a block with
\* a slot of OS type 0xEF is never accepted.
C17_MbrAcceptsOnlyProtective ==
    (op \in {"mbr_read", "mbr_from_bytes"} /\ result = "Ok")
        => (IsProtectiveMbr(codec.mbr) /\ ~HasUefiSlot(codec.mbr))

\* C18: the block serialized from new(last_lba), for every last_lba and 0
\* among them, is accepted by the MBR readers, and every block a reader
\* accepts is written back byte for byte.
C18_MbrRoundTrip ==
    (op \in {"mbr_read", "mbr_from_bytes"})
        => /\ (codec.mbr = ProtectiveMbr_new(codec.last_lba)) => result = "Ok"
           /\ result = "Ok" => codec.out = codec.mbr

\* Lexicographic order on the limbs of an unsigned integer, which is the
\* order of the integers.
LimbLe(a, b) ==
    \/ a = b
    \/ \E i \in 1..Len(a) :
          /\ a[i] < b[i]
          /\ \A j \in 1..(i - 1) : a[j] = b[j]

\* The u32 x as a u64.
Widen(x) == <<0, 0>> \o x

\* C19: new(last_lba) sets the size-LBA of partition[0] to the smaller of
\* last_lba and 0xFFFFFFFF, in both MBR modules; a last_lba over 32 bits is
\* not truncated.
C19_SizeLbaClamped ==
    (op \in {"mbr_new", "new_mbr_new"})
        => LET size == Widen(codec.mbr.partitions[1].size_lba) IN
           IF LimbLe(codec.last_lba, Widen(U32_MAX))
           THEN size = codec.last_lba
           ELSE size = Widen(U32_MAX)

\* new has been called with a last_lba over 32 bits whose low 32 bits are
\* not all ones, and has stored 0xFFFFFFFF.
C19_Witness ==
    /\ op \in {"mbr_new", "new_mbr_new"}
    /\ ~LimbLe(codec.last_lba, Widen(U32_MAX))
    /\ <<codec.last_lba[3], codec.last_lba[4]>> # U32_MAX
    /\ codec.mbr.partitions[1].size_lba = U32_MAX

\* The header bytes b with the CRC field taken as zero.
CrcFieldZeroed(b) == [b EXCEPT !.header_crc32 = ZeroCrc]

\* C20: Header write stores the CRC of the header bytes with the CRC field
\* taken as zero, whatever header_crc32 held before the call: the bytes of a
\* second write of the same header equal those of the first, and the bytes
\* of every write pass the check of Header read.
C20_HeaderCrcDeterministic ==
    (op = "header_write")
        => /\ codec.hbytes.header_crc32 = Crc32(CrcFieldZeroed(codec.hbytes))
           /\ codec.writes >= 2 => codec.hbytes = codec.hprev
           /\ new_Header_read(codec.hbytes, codec.hbytes.this_lba) = "Ok"

\* C25: for every block size the table read parses the primary header from
\* byte offset 1 * block_size, where the table write has put it: after a
\* successful write the block the read parses is the header at LBA 1, a
\* valid primary header.
C25_ReadsHeaderAtLba1 ==
    (op = "write" /\ result = "Ok")
        => /\ ParsedPrimaryBlock = PrimaryBlock
           /\ HeaderValid(ParsedPrimaryBlock, 1, LastLba(disk_size, block_size))

\* The used entries stored in the table's array, listed or not.
StoredEntries(g) ==
    {g.partitions[i] : i \in 1..Len(g.partitions)} \ {Partition_new}

C29_NotEnoughWritesNothing ==
    [][(op' = "write" /\ result' = "NotEnough")
          => (wlog' = <<>> /\ disk' = disk)]_vars

\* C30: the partitions of the table a successful read returns are those
\* decoded from the primary partition array, slot by slot; the backup
\* array's entries do not replace them.
C30_PartitionsFromPrimary ==
    (op = "read" /\ result = "Ok" /\ arg.n = N)
        => gpt.partitions
              = store_entries(default_partitions(N), DiskArray(ParsedPrimaryBlock),
                              block_size)

\* The five conditions of a valid header block b read from the LBA lba.
HeaderBlockValid(b, lba) ==
    /\ b.signature = SIGNATURE
    /\ b.revision = REVISION
    /\ b.header_size >= MIN_HEADER_SIZE
    /\ b.header_size <= block_size
    /\ b.header_crc32 = Crc32(HeaderPrefix(CrcFieldZeroed(b), b.header_size))
    /\ b.this_lba = lba

\* C21: Header read returns an error, and does not panic, on every header
\* block that violates one of: signature "EFI PART", revision 0x00010000,
\* 92 <= header_size <= block_size, stored CRC = CRC of the first header_size
\* bytes with the CRC field zeroed, this_lba = the LBA read from; it accepts
\* a block only if all five hold.
C21_HeaderReadRejectsInvalid ==
    (op = "header_read")
        => /\ result # "panic"
           /\ result = "Ok" => HeaderBlockValid(codec.hbytes, codec.lba)

\* C22: Header::new for a device smaller than two blocks, or with a block
\* size of 0, fails with a geometry error: it neither panics nor returns a
\* header computed from an underflowed LBA.
C22_GeometryError ==
    (op = "header_new" /\ (codec.bs = 0 \/ codec.ds < 2 * codec.bs))
        => result = "GeometryInvalid"

\* ceil(max(16384, partitions_count * partition_entry_size) / block_size)
ArrayBlocks(count, bs) ==
    CeilDiv(Max(MIN_PARTITION_BYTES, count * PARTITION_ENTRY_SIZE), bs)

\* C26: Header::new sets last_usable_lba = LastLBA - array_blocks - 1 for
\* every block size and partition count, array_blocks being the blocks of
\* max(16384, count * 128) bytes rounded up, and a backup header's array
\* starts array_blocks blocks before the header.
C26_LastUsableLba ==
    (op = "header_new" /\ result = "Ok" /\ codec.ds >= 2 * codec.bs)
        => /\ codec.hdr.last_usable_lba
                = LastLba(codec.ds, codec.bs) - ArrayBlocks(codec.count, codec.bs) - 1
           /\ codec.hdr.this_lba # 1
                => /\ codec.hdr.partition_array_start = codec.hdr.last_usable_lba + 1
                   /\ codec.hdr.this_lba - codec.hdr.partition_array_start
                        = ArrayBlocks(codec.count, codec.bs)

ArraySlot(array_lba, i) ==
    disk[into_offset(array_lba, block_size) + PARTITION_ENTRY_SIZE * (i - 1)]

\* The array region starting at array_lba holds the table's serialized
\* entries followed by zeroes, over the slots the model tracks.
RegionPadded(array_lba) ==
    \A i \in 1..MaxN :
        ArraySlot(array_lba, i)
            = IF i <= N THEN Partition_to_bytes(gpt.partitions[i], block_size)
              ELSE ZeroEntry

\* C23: after a successful table write, the primary and the backup array
\* region each hold the serialized entries followed by zero bytes up to the
\* reserved minimum, whatever the device held before and for every capacity.
C23_ArrayRegionPadded ==
    (op = "write" /\ result = "Ok")
        => /\ RegionPadded(PrimaryBlock.partition_array_start)
           /\ RegionPadded(BackupBlock.partition_array_start)

\* The used entries of the primary array of the image on the device.
UsedOnDisk ==
    Cardinality({i \in 1..ParsedPrimaryBlock.partitions :
                    DiskArray(ParsedPrimaryBlock)[i] # ZeroEntry})

\* The read of the device d with the full tracked capacity.
ReRead(d) == from_bytes_with_size(d, MaxN, 0, block_size, disk_size)

====
